---- MODULE Spec2Model ----
(***************************************************************************)
(* A model of src/box_selenium_downloader.py: the crawl of a paginated     *)
(* shared-folder listing (download_shared_folder_with_aria) followed by    *)
(* the per-file download loop (download_via_browser).                      *)
(*                                                                         *)
(* The program is sequential: pc is its position.  The browser (what the   *)
(* driver calls return or raise) is drawn with \E at every call; the       *)
(* download directory is the variable fs, written only by the browser's    *)
(* download manager (the Transfer* actions), never by the program.         *)
(*                                                                         *)
(* Strings the code takes apart (addresses, link texts, file names) are    *)
(* sequences of one-character strings.                                     *)
(***************************************************************************)
EXTENDS Naturals, Sequences, FiniteSets

VARIABLES
    pc,             \* position of the program
    exc,            \* where an exception that nothing handled was raised
    exit_code,      \* exit status of the process, NotExited while it runs
    file_map,       \* the dict file_map, in insertion order: [key, href, name]
    seen,           \* addresses collect_links_on_page has resolved so far
    base,           \* base of the collect_links_on_page call under way
    todo,           \* anchors its for loop has still to visit
    page_idx,       \* page_idx of the crawl loop
    first_href,     \* first_href of the crawl loop
    cur_first,      \* cur_first of the last poll of wait_for_new_page
    changed,        \* changed of the crawl loop
    polls,          \* rounds done by the polling loop the program is in
    fs,             \* paths that exist in the download directory
    transfers,      \* names the browser has a transfer in hand for
    idx,            \* position of the item loop in links_map (1-based)
    attempt,        \* attempt of the attempt loop
    downloaded,     \* downloaded
    success_count,  \* success_count
    skip_count,     \* skip_count
    fail_count,     \* fail_count
    failed_files,   \* failed_files
    outcomes,       \* per-item log lines: [item, result], in the order logged
    summary,        \* the SUMMARY block once logged, NoSummary before
    run,            \* which invocation of download_via_browser is running
    first_outcomes, \* outcomes of the first invocation, kept for a second
    next_clicked,   \* clicked of the crawl loop
    clicked,        \* clicked of the attempt loop
    started,        \* started of the attempt loop
    took            \* whether the click made the browser start a transfer

vars == <<pc, exc, exit_code, file_map, seen, base, todo, page_idx, first_href, cur_first,
          changed, polls, fs, transfers, idx, attempt, downloaded,
          success_count, skip_count, fail_count, failed_files, outcomes,
          summary, run, first_outcomes, next_clicked, clicked, started,
          took>>

crawlVars == <<file_map, seen, page_idx, first_href, cur_first, changed>>
tallyVars == <<success_count, skip_count, fail_count, failed_files, outcomes>>
rerunVars == <<run, first_outcomes>>
collectVars == <<base, todo>>
attemptVars == <<clicked, started, took>>

----------------------------------------------------------------------------
(* Bounds of the model *)

\* rounds a polling loop makes before its timeout expires
MaxPolls == 1
\* anchors one find_elements call of collect_links_on_page returns
MaxAnchors == 2
\* page_idx is only logged: values above MaxPageIdx are folded onto it
MaxPageIdx == 2
\* files present in the download directory when the program starts
MaxPreexisting == 1

(* Program constants *)
MAX_ATTEMPTS == 3

None == <<>>
NotExited == "running"
NoSummary == [logged |-> FALSE]

----------------------------------------------------------------------------
(* Strings *)

Min(a, b) == IF a < b THEN a ELSE b

\* s.find(c) + 1: the first position of c in s, 0 when absent
Find(s, c) ==
    IF \E i \in 1..Len(s) : s[i] = c
    THEN CHOOSE i \in 1..Len(s) : s[i] = c /\ \A j \in 1..(i - 1) : s[j] # c
    ELSE 0

\* s.rfind(c) + 1
RFind(s, c) ==
    IF \E i \in 1..Len(s) : s[i] = c
    THEN CHOOSE i \in 1..Len(s) : s[i] = c /\ \A j \in (i + 1)..Len(s) : s[j] # c
    ELSE 0

\* s.split(c)[0]
SplitFirst(s, c) == IF Find(s, c) = 0 THEN s ELSE SubSeq(s, 1, Find(s, c) - 1)

Reserved == {"\\", "/", "*", "?", ":", "\"", "<", ">", "|"}

sanitize(name) == [i \in 1..Len(name) |-> IF name[i] \in Reserved THEN "_" ELSE name[i]]

RECURSIVE LStrip(_)
LStrip(s) == IF s # <<>> /\ Head(s) = " " THEN LStrip(Tail(s)) ELSE s

RECURSIVE RStrip(_)
RStrip(s) == IF s # <<>> /\ s[Len(s)] = " " THEN RStrip(SubSeq(s, 1, Len(s) - 1)) ELSE s

\* str.strip()
Strip(s) == RStrip(LStrip(s))

(* Addresses.  "h" stands for scheme and authority; an address is either   *)
(* absolute ("h/1?v") or an absolute-path reference ("/1").                *)
Authority(url) == SplitFirst(url, "/")

\* urllib.parse.urljoin for these two forms of reference
urljoin(b, ref) == IF ref # <<>> /\ Head(ref) = "/" THEN Authority(b) \o ref ELSE ref

\* urlparse(url).path of an absolute address
UrlPath(url) ==
    LET noq == SplitFirst(url, "?")
    IN  SubSeq(noq, Len(Authority(noq)) + 1, Len(noq))

\* os.path.basename
Basename(p) == SubSeq(p, RFind(p, "/") + 1, Len(p))

\* the mutant of KeyOf: the address itself is the key
KeyOfWholeAddress(href) == href

\* key = href.split("?")[0]
KeyOf(href) == SplitFirst(href, "?")

----------------------------------------------------------------------------
(* What the browser can show *)

BaseUrls == { <<"h", "/", "d">>, <<"h", "/", "d", "?", "p">> }

Hrefs == { <<"h", "/", "1">>, <<"h", "/", "1", "?", "v">>, <<"/", "1">>, <<"/", "2">> }

Texts == { <<>>, <<" ">>, <<"a", ":">> }

Labels == { None, <<"a", "_">> }

\* an <a> element: its href attribute (None when absent), text and aria-label
Anchors == [href : Hrefs \cup {None}, text : Texts, label : Labels]

\* name = a.text.strip() or a.get_attribute("aria-label") or basename(path)
NameOf(a, href) ==
    sanitize(IF Strip(a.text) # <<>> THEN Strip(a.text)
             ELSE IF a.label # None THEN a.label
             ELSE Basename(UrlPath(href)))

AllNames == { NameOf(a, urljoin(b, a.href)) : a \in {x \in Anchors : x.href # None}, b \in BaseUrls }

\* out_path = os.path.join(out_dir, name); tmp_file = out_path + ".crdownload"
OutPath(name) == name
TmpFile(name) == Append(name, ".crdownload")

AllPaths == { OutPath(n) : n \in AllNames } \cup { TmpFile(n) : n \in AllNames }

HasKey(fm, key) == \E i \in 1..Len(fm) : fm[i].key = key

\* the mutant of CollectOne: a later anchor with a known key replaces the entry
CollectOneOverwrite(fm, b, a) ==
    IF a.href = None THEN fm
    ELSE LET href == urljoin(b, a.href)
             key  == KeyOf(href)
             new  == [key |-> key, href |-> href, name |-> NameOf(a, href)]
         IN  IF HasKey(fm, key)
             THEN [i \in 1..Len(fm) |-> IF fm[i].key = key THEN new ELSE fm[i]]
             ELSE Append(fm, new)

\* the body of the for loop of collect_links_on_page for one anchor
CollectOne(fm, b, a) ==
    IF a.href = None THEN fm
    ELSE LET href == urljoin(b, a.href)
             key  == KeyOf(href)
         IN  IF HasKey(fm, key) THEN fm
             ELSE Append(fm, [key |-> key, href |-> href, name |-> NameOf(a, href)])

\* the address of anchor a, resolved against b, when a has an href
Resolved(b, a) == IF a.href = None THEN {} ELSE {urljoin(b, a.href)}

----------------------------------------------------------------------------
Init ==
    /\ pc = "setup"
    /\ exc = "none"
    /\ exit_code = NotExited
    /\ file_map = <<>>
    /\ seen = {}
    /\ base = None
    /\ todo = 0
    /\ page_idx = 0
    /\ first_href = None
    /\ cur_first = None
    /\ changed = FALSE
    /\ polls = 0
    /\ fs \in { s \in SUBSET AllPaths : Cardinality(s) <= MaxPreexisting }
    /\ transfers = {}
    /\ idx = 0
    /\ attempt = 0
    /\ downloaded = FALSE
    /\ success_count = 0
    /\ skip_count = 0
    /\ fail_count = 0
    /\ failed_files = <<>>
    /\ outcomes = <<>>
    /\ summary = NoSummary
    /\ run = 1
    /\ first_outcomes = <<>>
    /\ next_clicked = FALSE
    /\ clicked = FALSE
    /\ started = FALSE
    /\ took = FALSE

\* an exception nothing handles inside download_shared_folder_with_aria:
\* control goes to the finally block
Raise(where) == pc' = "finally" /\ exc' = where

----------------------------------------------------------------------------
(* download_shared_folder_with_aria: set-up and crawl *)

\* driver = setup_driver(...): raises outside the try block when no browser starts
SetupDriver ==
    /\ pc = "setup"
    /\ \/ pc' = "open_share" /\ exc' = exc
       \/ pc' = "main" /\ exc' = "setup"
    /\ UNCHANGED <<exit_code, crawlVars, polls, fs, transfers, idx, attempt,
                   downloaded, tallyVars, summary, rerunVars,
                   collectVars, attemptVars, next_clicked>>

\* driver.get(share_url)
OpenShare ==
    /\ pc = "open_share"
    /\ \/ pc' = "render_wait" /\ exc' = exc
       \/ Raise("crawl")
    /\ UNCHANGED <<exit_code, crawlVars, polls, fs, transfers, idx, attempt,
                   downloaded, tallyVars, summary, rerunVars,
                   collectVars, attemptVars, next_clicked>>

\* WebDriverWait(driver, 15).until(...): a link shows up, or TimeoutException
RenderWait ==
    /\ pc = "render_wait"
    /\ \/ /\ pc' = "collect"
          /\ exc' = exc
          /\ file_map' = <<>>
          /\ page_idx' = 1
       \/ /\ Raise("crawl")
          /\ UNCHANGED <<file_map, page_idx>>
    /\ UNCHANGED <<exit_code, seen, first_href, cur_first, changed, polls, fs,
                   transfers, idx, attempt, downloaded, tallyVars, summary,
                   rerunVars,
                   collectVars, attemptVars, next_clicked>>

\* collect_links_on_page, up to its for loop: base = driver.current_url and
\* anchors = driver.find_elements(...), todo the number of anchors returned;
\* base is a local of the call and is gone when the call returns
CollectLinks ==
    /\ pc = "collect"
    /\ \/ \E b \in BaseUrls, n \in 0..MaxAnchors :
             /\ base' = IF n = 0 THEN None ELSE b
             /\ todo' = n
             /\ pc' = IF n = 0 THEN "get_first" ELSE "anchor"
             /\ exc' = exc
       \/ /\ Raise("crawl")
          /\ UNCHANGED <<base, todo>>
    /\ UNCHANGED <<exit_code, crawlVars, polls, fs, transfers, idx, attempt,
                   downloaded, tallyVars, summary, rerunVars, attemptVars,
                   next_clicked>>

\* one pass of the for loop of collect_links_on_page, over the anchor a; the
\* attribute and text reads are browser calls and may raise
CollectAnchor ==
    /\ pc = "anchor"
    /\ \/ \E a \in Anchors :
             /\ file_map' = CollectOne(file_map, base, a)
             /\ seen' = seen \cup Resolved(base, a)
             /\ todo' = todo - 1
             /\ base' = IF todo = 1 THEN None ELSE base
             /\ pc' = IF todo = 1 THEN "get_first" ELSE "anchor"
             /\ exc' = exc
       \/ /\ Raise("crawl")
          /\ UNCHANGED <<file_map, seen, todo, base>>
    /\ UNCHANGED <<exit_code, page_idx, first_href, cur_first, changed, polls,
                   fs, transfers, idx, attempt, downloaded, tallyVars, summary,
                   rerunVars, attemptVars, next_clicked>>

\* first_href = the href of the first file link, None when the lookup raises
GetFirst ==
    /\ pc = "get_first"
    /\ first_href' \in Hrefs \cup {None}
    /\ pc' = "click_next"
    /\ UNCHANGED <<exc, exit_code, file_map, seen, page_idx, cur_first, changed,
                   polls, fs, transfers, idx, attempt, downloaded, tallyVars,
                   summary, rerunVars,
                   collectVars, attemptVars, next_clicked>>

\* the mutant of AfterClickNext: the loop has no break
AfterClickNextNoBreak(c) == "wait_new_page"

\* if not clicked: break; else wait_for_new_page(driver, first_href)
AfterClickNext(c) == IF c THEN "wait_new_page" ELSE "start_download"

\* clicked = click_next_page_aria(driver): True when one of the candidates is
\* displayed and enabled and was clicked; every exception is swallowed
ClickNext ==
    /\ pc = "click_next"
    /\ \E c \in BOOLEAN :
          /\ next_clicked' = c
          /\ pc' = AfterClickNext(c)
    /\ polls' = 0
    /\ UNCHANGED <<exc, exit_code, crawlVars, fs, transfers, idx, attempt,
                   downloaded, tallyVars, summary, rerunVars,
                   collectVars, attemptVars>>

\* prev_first_href and cur_first != prev_first_href
PageChanged(prev_first_href, cur) == prev_first_href # None /\ cur # prev_first_href

\* one round of wait_for_new_page, or its timeout
WaitForNewPage ==
    /\ pc = "wait_new_page"
    /\ \/ /\ polls < MaxPolls
          /\ \E found \in BOOLEAN, cur \in Hrefs \cup {None} :
                /\ cur_first' = IF found THEN cur ELSE cur_first
                /\ IF found /\ PageChanged(first_href, cur)
                   THEN changed' = TRUE /\ pc' = "page_advance" /\ polls' = 0
                   ELSE changed' = changed /\ pc' = pc /\ polls' = polls + 1
       \/ /\ polls >= MaxPolls
          /\ changed' = FALSE
          /\ pc' = "page_advance"
          /\ polls' = 0
          /\ cur_first' = cur_first
    /\ UNCHANGED <<exc, exit_code, file_map, seen, page_idx, first_href, fs,
                   transfers, idx, attempt, downloaded, tallyVars, summary,
                   rerunVars,
                   collectVars, attemptVars, next_clicked>>

\* if not changed: log, sleep; page_idx += 1; sleep; back to the top of the loop
PageAdvance ==
    /\ pc = "page_advance"
    /\ page_idx' = Min(page_idx + 1, MaxPageIdx)
    /\ cur_first' = None
    /\ next_clicked' = FALSE
    /\ pc' = "collect"
    /\ UNCHANGED <<exc, exit_code, file_map, seen, first_href, changed, polls, fs,
                   transfers, idx, attempt, downloaded, tallyVars, summary,
                   rerunVars, collectVars, attemptVars>>

----------------------------------------------------------------------------
(* download_via_browser *)

Name(i) == file_map[i].name

\* the for loop over links_map.items(): the next item, or the summary
AfterItem(i) == IF i + 1 <= Len(file_map) THEN "item" ELSE "summary"

\* the mutant of FirstItem: the loop starts at the second entry
FirstItemSecond == 1 + 1

\* for key, (href, name) in links_map.items(): the entry the loop starts at
FirstItem == 1

\* the call download_via_browser(driver, file_map, out_dir) and its first lines;
\* the locals of the crawl loop are not read again
StartDownload ==
    /\ pc = "start_download"
    /\ success_count' = 0
    /\ skip_count' = 0
    /\ fail_count' = 0
    /\ failed_files' = <<>>
    /\ idx' = FirstItem
    /\ pc' = AfterItem(FirstItem - 1)
    /\ first_href' = None
    /\ cur_first' = None
    /\ changed' = FALSE
    /\ next_clicked' = FALSE
    /\ UNCHANGED <<exc, exit_code, file_map, seen, page_idx, polls, fs, transfers,
                   attempt, downloaded, outcomes, summary, rerunVars,
                   collectVars, attemptVars>>

\* the mutant of DestExists: the skip test looks at the .crdownload sibling
DestExistsTmp(files, name) == TmpFile(name) \in files

\* os.path.exists(out_path)
DestExists(files, name) == OutPath(name) \in files

\* the top of the item loop: skip an item whose file exists, else start on it
ItemStart ==
    /\ pc = "item"
    /\ IF DestExists(fs, Name(idx))
       THEN /\ skip_count' = skip_count + 1
            /\ outcomes' = Append(outcomes, [item |-> idx, result |-> "Skipped"])
            /\ idx' = idx + 1
            /\ pc' = AfterItem(idx)
            /\ UNCHANGED <<downloaded, attempt>>
       ELSE /\ downloaded' = FALSE
            /\ attempt' = 0
            /\ pc' = "attempt_loop"
            /\ UNCHANGED <<skip_count, outcomes, idx>>
    /\ UNCHANGED <<exc, exit_code, crawlVars, polls, fs, transfers, success_count,
                   fail_count, failed_files, summary, rerunVars,
                   collectVars, attemptVars, next_clicked>>

\* for attempt in range(1, MAX_ATTEMPTS + 1), n the attempts made so far
AttemptsLeft(n) == n < MAX_ATTEMPTS

AttemptLoop ==
    /\ pc = "attempt_loop"
    /\ IF AttemptsLeft(attempt)
       THEN attempt' = attempt + 1 /\ pc' = "nav"
       ELSE attempt' = attempt /\ pc' = "item_end"
    /\ UNCHANGED <<exc, exit_code, crawlVars, polls, fs, transfers, idx, downloaded,
                   tallyVars, summary, rerunVars,
                   collectVars, attemptVars, next_clicked>>

\* driver.get(href); when it raises the attempt is over (continue)
Navigate ==
    /\ pc = "nav"
    /\ pc' \in {"click", "attempt_loop"}
    /\ UNCHANGED <<exc, exit_code, crawlVars, polls, fs, transfers, idx, attempt,
                   downloaded, tallyVars, summary, rerunVars,
                   collectVars, attemptVars, next_clicked>>

\* os.path.exists(out_path) or os.path.exists(tmp_file)
Started(files, name) == OutPath(name) \in files \/ TmpFile(name) \in files

\* the mutant of AfterNoControl: the attempt ends with a bare continue
AfterNoControlContinue == "attempt_loop"

\* if not clicked: driver.refresh(); time.sleep(2); continue
AfterNoControl == "refresh"

\* clicked = click_download_in_viewer(driver); a click that was dispatched may
\* or may not make the browser start a transfer
ClickDownload ==
    /\ pc = "click"
    /\ \/ /\ clicked' = TRUE
          /\ took' \in BOOLEAN
          /\ pc' = "begin_wait"
          /\ transfers' = IF took' THEN transfers \cup {Name(idx)} ELSE transfers
       \/ /\ clicked' = FALSE
          /\ took' = FALSE
          /\ pc' = AfterNoControl
          /\ transfers' = transfers
    /\ polls' = 0
    /\ UNCHANGED <<exc, exit_code, crawlVars, fs, idx, attempt, downloaded,
                   tallyVars, summary, rerunVars,
                   collectVars, started, next_clicked>>

\* driver.refresh(): not inside any try of download_via_browser; the locals
\* of the attempt are not read again before they are assigned
Refresh ==
    /\ pc = "refresh"
    /\ \/ pc' = "backoff" /\ exc' = exc
       \/ Raise("download")
    /\ clicked' = FALSE
    /\ started' = FALSE
    /\ took' = FALSE
    /\ UNCHANGED <<exit_code, crawlVars, polls, fs, transfers, idx, attempt,
                   downloaded, tallyVars, summary, rerunVars,
                   collectVars, next_clicked>>

\* the mutant of AfterBackoff: the same attempt is run again, uncounted
AfterBackoffSameAttempt == "nav"

\* continue: back to the for statement of the attempt loop
AfterBackoff == "attempt_loop"

\* time.sleep(2); continue
Backoff ==
    /\ pc = "backoff"
    /\ pc' = AfterBackoff
    /\ UNCHANGED <<exc, exit_code, crawlVars, polls, fs, transfers, idx, attempt,
                   downloaded, tallyVars, summary, rerunVars,
                   collectVars, attemptVars, next_clicked>>

\* one round of the watchdog loop, or its timeout
BeginWait ==
    /\ pc = "begin_wait"
    /\ IF polls < MaxPolls
       THEN IF Started(fs, Name(idx))
            THEN started' = TRUE /\ pc' = "complete_wait" /\ polls' = 0
            ELSE started' = started /\ pc' = pc /\ polls' = polls + 1
       ELSE started' = started /\ pc' = "refresh" /\ polls' = 0
    /\ UNCHANGED <<exc, exit_code, crawlVars, fs, transfers, idx, attempt,
                   downloaded, tallyVars, summary, rerunVars,
                   collectVars, clicked, took, next_clicked>>

\* the mutant of Finished: the .crdownload sibling is not looked at
FinishedFinalOnly(files, name) == OutPath(name) \in files

\* the mutant of Finished: only the .crdownload sibling is looked at
FinishedTmpGone(files, name) == TmpFile(name) \notin files

\* os.path.exists(out_path) and not os.path.exists(download_tmp)
Finished(files, name) == OutPath(name) \in files /\ TmpFile(name) \notin files

\* the mutant of RecordSuccess: the item is tallied but downloaded stays False
RecordSuccessNoFlag ==
    /\ success_count' = success_count + 1
    /\ downloaded' = downloaded
    /\ outcomes' = Append(outcomes, [item |-> idx, result |-> "Succeeded"])

\* success_count += 1; downloaded = True; break
RecordSuccess ==
    /\ success_count' = success_count + 1
    /\ downloaded' = TRUE
    /\ outcomes' = Append(outcomes, [item |-> idx, result |-> "Succeeded"])

\* one round of wait_for_download, or its timeout, and what follows its return
CompleteWait ==
    /\ pc = "complete_wait"
    /\ IF polls < MaxPolls
       THEN IF Finished(fs, Name(idx))
            THEN /\ RecordSuccess
                 /\ pc' = "item_end"
                 /\ polls' = 0
            ELSE /\ pc' = pc
                 /\ polls' = polls + 1
                 /\ UNCHANGED <<success_count, downloaded, outcomes>>
       ELSE /\ pc' = "refresh"
            /\ polls' = 0
            /\ UNCHANGED <<success_count, downloaded, outcomes>>
    /\ UNCHANGED <<exc, exit_code, crawlVars, fs, transfers, idx, attempt,
                   skip_count, fail_count, failed_files, summary, rerunVars,
                   collectVars, attemptVars, next_clicked>>

\* the mutant of RecordFailed: the name is listed but the tally is not raised
RecordFailedNoCount ==
    /\ fail_count' = fail_count
    /\ failed_files' = Append(failed_files, Name(idx))
    /\ outcomes' = Append(outcomes, [item |-> idx, result |-> "Failed"])

\* fail_count += 1; failed_files.append(name); logger.error(...)
RecordFailed ==
    /\ fail_count' = fail_count + 1
    /\ failed_files' = Append(failed_files, Name(idx))
    /\ outcomes' = Append(outcomes, [item |-> idx, result |-> "Failed"])

\* where the item loop goes once item i was recorded as failed
AfterFailed(i) == AfterItem(i)

\* if not downloaded: ...; then the next item
ItemEnd ==
    /\ pc = "item_end"
    /\ IF downloaded
       THEN /\ UNCHANGED <<fail_count, failed_files, outcomes>>
            /\ pc' = AfterItem(idx)
       ELSE /\ RecordFailed
            /\ pc' = AfterFailed(idx)
    /\ idx' = idx + 1
    /\ clicked' = FALSE
    /\ started' = FALSE
    /\ took' = FALSE
    /\ UNCHANGED <<exc, exit_code, crawlVars, polls, fs, transfers, attempt,
                   downloaded, success_count, skip_count, summary, rerunVars,
                   collectVars, next_clicked>>

\* the SUMMARY block of the log
Summary ==
    /\ pc = "summary"
    /\ summary' = [logged |-> TRUE, total |-> Len(file_map),
                   downloaded |-> success_count, skipped |-> skip_count,
                   failed |-> fail_count, failed_files |-> failed_files]
    /\ pc' = "dl_return"
    /\ UNCHANGED <<exc, exit_code, crawlVars, polls, fs, transfers, idx, attempt,
                   downloaded, tallyVars, rerunVars,
                   collectVars, attemptVars, next_clicked>>

\* logger.info("Done.") after download_via_browser returned
Done ==
    /\ pc = "dl_return"
    /\ pc' = "finally"
    /\ UNCHANGED <<exc, exit_code, crawlVars, polls, fs, transfers, idx, attempt,
                   downloaded, tallyVars, summary, rerunVars,
                   collectVars, attemptVars, next_clicked>>

\* finally: driver.quit(), whatever it raises is dropped; the browser is gone
Finally ==
    /\ pc = "finally"
    /\ pc' = "main"
    /\ transfers' = {}
    /\ UNCHANGED <<exc, exit_code, crawlVars, polls, fs, idx, attempt, downloaded,
                   tallyVars, summary, rerunVars,
                   collectVars, attemptVars, next_clicked>>

\* __main__: except Exception logs the error; the script then ends normally
MainEnd ==
    /\ pc = "main"
    /\ exit_code' = 0
    /\ pc' = "exited"
    /\ UNCHANGED <<exc, crawlVars, polls, fs, transfers, idx, attempt, downloaded,
                   tallyVars, summary, rerunVars,
                   collectVars, attemptVars, next_clicked>>

----------------------------------------------------------------------------
(* The browser's download manager *)

\* a transfer in hand starts writing its .crdownload file
TransferBegin ==
    /\ \E n \in transfers :
          /\ TmpFile(n) \notin fs
          /\ fs' = fs \cup {TmpFile(n)}
    /\ UNCHANGED <<pc, exc, exit_code, crawlVars, polls, transfers, idx, attempt,
                   downloaded, tallyVars, summary, rerunVars,
                   collectVars, attemptVars, next_clicked>>

\* a transfer completes: the .crdownload file is renamed to the final name
TransferFinish ==
    /\ \E n \in transfers :
          /\ TmpFile(n) \in fs
          /\ fs' = (fs \ {TmpFile(n)}) \cup {OutPath(n)}
          /\ transfers' = transfers \ {n}
    /\ UNCHANGED <<pc, exc, exit_code, crawlVars, polls, idx, attempt, downloaded,
                   tallyVars, summary, rerunVars,
                   collectVars, attemptVars, next_clicked>>

\* a transfer is dropped: its .crdownload file, if any, is removed
TransferAbort ==
    /\ \E n \in transfers :
          /\ fs' = fs \ {TmpFile(n)}
          /\ transfers' = transfers \ {n}
    /\ UNCHANGED <<pc, exc, exit_code, crawlVars, polls, idx, attempt, downloaded,
                   tallyVars, summary, rerunVars,
                   collectVars, attemptVars, next_clicked>>

----------------------------------------------------------------------------
Program ==
    \/ SetupDriver
    \/ OpenShare
    \/ RenderWait
    \/ CollectLinks
    \/ CollectAnchor
    \/ GetFirst
    \/ ClickNext
    \/ WaitForNewPage
    \/ PageAdvance
    \/ StartDownload
    \/ ItemStart
    \/ AttemptLoop
    \/ Navigate
    \/ ClickDownload
    \/ Refresh
    \/ Backoff
    \/ BeginWait
    \/ CompleteWait
    \/ ItemEnd
    \/ Summary
    \/ Done
    \/ Finally
    \/ MainEnd

Browser == TransferBegin \/ TransferFinish \/ TransferAbort

Next == Program \/ Browser

Spec == Init /\ [][Next]_vars

\* the program is one thread that always takes its next step
LiveSpec == Spec /\ WF_vars(Program)

\* download_via_browser called once more on the same links_map and out_dir
Rerun ==
    /\ pc = "dl_return"
    /\ run = 1
    /\ run' = 2
    /\ first_outcomes' = outcomes
    /\ outcomes' = <<>>
    /\ summary' = NoSummary
    /\ success_count' = 0
    /\ skip_count' = 0
    /\ fail_count' = 0
    /\ failed_files' = <<>>
    /\ idx' = FirstItem
    /\ pc' = AfterItem(FirstItem - 1)
    /\ UNCHANGED <<exc, exit_code, crawlVars, collectVars, polls, fs, transfers,
                   attempt, downloaded, attemptVars, next_clicked>>

NextRerun == Next \/ Rerun

SpecRerun == Init /\ [][NextRerun]_vars

----------------------------------------------------------------------------
(* Vocabulary of the claims *)

CrawlPcs == {"setup", "open_share", "render_wait", "collect", "anchor",
             "get_first", "click_next", "wait_new_page", "page_advance"}

CrawlLoopPcs == {"collect", "anchor", "get_first", "click_next", "wait_new_page"}

ItemPcs == {"item", "attempt_loop", "nav", "click", "refresh", "backoff",
            "begin_wait", "complete_wait", "item_end"}

EndedPcs == {"dl_return", "finally", "main", "exited"}

Items == 1..Len(file_map)

\* the results logged for item i, in a sequence of log lines
ResultsIn(log, i) == { k \in 1..Len(log) : log[k].item = i }
HasResult(log, i, r) == \E k \in ResultsIn(log, i) : log[k].result = r
OneResult(log, i) == Cardinality(ResultsIn(log, i)) = 1
CountOf(log, r) == Cardinality({ k \in 1..Len(log) : log[k].result = r })

IsFailed(e) == e.result = "Failed"

\* the display names of the items logged as failed, in the order logged
FailedNames ==
    LET f == SelectSeq(outcomes, IsFailed)
    IN  [k \in 1..Len(f) |-> Name(f[k].item)]

\* an address with its query stripped, stated without split: the prefix that
\* holds no "?" and ends where the address ends or where its first "?" stands
StripQuery(u) ==
    CHOOSE k \in { SubSeq(u, 1, n) : n \in 0..Len(u) } :
        /\ \A i \in 1..Len(k) : k[i] # "?"
        /\ Len(k) = Len(u) \/ u[Len(k) + 1] = "?"

----------------------------------------------------------------------------
(* C1: for every item handed to the download loop, under any behaviour of  *)
(* the browser, at most MAX_ATTEMPTS attempts are made and the item ends   *)
(* with exactly one outcome among Skipped, Succeeded, Failed.  Stated on   *)
(* the finished process: every item the loop reached has one outcome.      *)
C1_OneOutcomePerItem ==
    /\ attempt <= MAX_ATTEMPTS
    /\ pc = "exited" =>
          \A i \in Items : i <= idx => OneResult(outcomes, i)

(* C2: the crawl loop always terminates, also when an enabled Next control *)
(* is there on every page cycle and the first link never changes: if from  *)
(* some point on no advance is confirmed any more, the program eventually  *)
(* leaves the crawl.                                                       *)
C2_CrawlTerminates ==
    <>[](~(pc = "page_advance" /\ changed)) => <>(pc \notin CrawlPcs)

(* C3: when wait_for_new_page times out the crawl ends there: no further   *)
(* link collection and no further click on the advance control happen, so  *)
(* the crawl loop is only ever at work on page 1 or after a confirmed      *)
(* advance.                                                                *)
C3_StallEndsCrawl == pc \in CrawlLoopPcs => (page_idx = 1 \/ changed)

(* C4, as claimed: a second run of download_via_browser on the same        *)
(* catalog and directory has no Succeeded outcome, and every item that was *)
(* Succeeded in the first run is Skipped in the second.                    *)
C4_RerunAllSkipped ==
    (run = 2 /\ pc \in EndedPcs) =>
        /\ CountOf(outcomes, "Succeeded") = 0
        /\ \A i \in Items : HasResult(first_outcomes, i, "Succeeded")
                               => HasResult(outcomes, i, "Skipped")

(* C4, amended: in the second run an item that was Succeeded or Skipped in *)
(* the first run is never attempted and never Succeeded; it is Skipped as  *)
(* soon as the second run reaches it.                                      *)
C4_RerunSkipsDone ==
    run = 2 =>
        \A i \in Items :
            (HasResult(first_outcomes, i, "Succeeded") \/ HasResult(first_outcomes, i, "Skipped"))
            => /\ \A k \in ResultsIn(outcomes, i) : outcomes[k].result = "Skipped"
               /\ idx = i => pc = "item"
               /\ idx > i => HasResult(outcomes, i, "Skipped")

C4_Witness ==
    /\ run = 2
    /\ pc = "dl_return"
    /\ \E i \in Items : HasResult(first_outcomes, i, "Succeeded") /\ HasResult(outcomes, i, "Skipped")
    /\ \E j \in Items : HasResult(first_outcomes, j, "Failed") /\ HasResult(outcomes, j, "Succeeded")

(* C5: after any sequence of collect_links_on_page calls over overlapping  *)
(* views, file_map holds exactly one entry per distinct canonical key      *)
(* (address with the query stripped) among the anchors seen that had an    *)
(* href, and no entry for any other key.                                   *)
C5_OneEntryPerKey ==
    /\ \A i, j \in Items : file_map[i].key = file_map[j].key => i = j
    /\ { file_map[i].key : i \in Items } = { StripQuery(u) : u \in seen }

C5_Witness ==
    /\ pc = "get_first"
    /\ page_idx >= 2
    /\ Len(file_map) = 2
    /\ Cardinality(seen) > Len(file_map)

(* C6: a Failed outcome never aborts the batch: once an item has been      *)
(* recorded Failed, every item after it still gets its own outcome and the *)
(* summary is still produced.  Stated on the finished process.             *)
C6_FailedNeverAborts ==
    pc = "exited" =>
        \A i \in Items : HasResult(outcomes, i, "Failed")
            => /\ \A j \in Items : j > i => OneResult(outcomes, j)
               /\ summary.logged

(* C7: at the summary the three tallies add up to the number of catalog    *)
(* items, the failed-name list has fail_count entries and holds exactly    *)
(* the names of the items that ended Failed, and no item is counted twice. *)
C7_SummaryTallies ==
    summary.logged =>
        /\ summary.total = Len(file_map)
        /\ summary.downloaded + summary.skipped + summary.failed = summary.total
        /\ Len(summary.failed_files) = summary.failed
        /\ summary.failed_files = FailedNames
        /\ summary.downloaded = CountOf(outcomes, "Succeeded")
        /\ summary.skipped = CountOf(outcomes, "Skipped")
        /\ summary.failed = CountOf(outcomes, "Failed")
        /\ \A i \in Items : OneResult(outcomes, i)

C7_Witness ==
    /\ summary.logged
    /\ summary.total = 2
    /\ summary.failed = 1
    /\ summary.downloaded = 1

(* C8: when a fatal browser error ends the download phase part way, the    *)
(* run still reports a summary of the items processed so far.              *)
C8_SummaryAfterFatal == (pc = "exited" /\ exc = "download") => summary.logged

(* C9: the process outcome is 0 only when the run completed, and non-zero  *)
(* whenever a fatal error occurred during set-up or crawl.                 *)
C9_ExitCode == pc = "exited" => (exit_code = 0 <=> exc = "none")

(* C10: an item whose destination path exists when the item loop reaches   *)
(* it is Skipped in that very step: no attempt is started (no navigation,  *)
(* click, refresh or wait) and the directory and the browser's transfers   *)
(* are left as they were.                                                  *)
C10_SkipIsImmediate ==
    [][ (/\ pc = "item"
         /\ OutPath(Name(idx)) \in fs
         /\ <<pc, idx>>' # <<pc, idx>>)
        => /\ idx' = idx + 1
           /\ pc' \in {"item", "summary"}
           /\ outcomes' = Append(outcomes, [item |-> idx, result |-> "Skipped"])
           /\ UNCHANGED <<fs, transfers, attempt, polls, downloaded>> ]_vars

C10_Witness ==
    /\ pc = "item"
    /\ idx = 2
    /\ outcomes = <<[item |-> 1, result |-> "Skipped"]>>
    /\ attempt = 0

(* C11: when click_next_page_aria finds no control on the first page      *)
(* cycle, the crawl ends right there: the catalog holds exactly what was   *)
(* collected from the first page, wait_for_new_page was never called, and  *)
(* the download phase starts with that catalog.                            *)
C11_FirstPageOnly ==
    [][ /\ (pc = "click_next" /\ page_idx = 1 /\ pc' # pc /\ ~next_clicked')
           => /\ pc' = "start_download"
              /\ exc' = "none"
              /\ file_map' = file_map
              /\ { file_map[i].key : i \in Items } = { StripQuery(u) : u \in seen }
              /\ ~changed /\ ~changed'
              /\ cur_first = None /\ cur_first' = None
        /\ (pc = "start_download" /\ pc' # pc)
           => /\ pc' \in {"item", "summary"}
              /\ idx' = 1
              /\ outcomes' = <<>>
              /\ file_map' = file_map ]_vars

C11_Witness ==
    /\ pc = "item"
    /\ page_idx = 1
    /\ ~next_clicked
    /\ Len(file_map) = 2
    /\ outcomes = <<>>

(* C12: an attempt that sees the transfer complete, the first or a later   *)
(* one, whatever the earlier attempts of the item failed on, makes the     *)
(* item Succeeded: it is tallied as a success and is not put on the list   *)
(* of failed files, neither then nor when the item loop moves on.          *)
C12_RetrySucceeds ==
    [][ /\ (/\ pc = "complete_wait"
            /\ polls < MaxPolls
            /\ OutPath(Name(idx)) \in fs
            /\ TmpFile(Name(idx)) \notin fs
            /\ pc' # pc)
           => /\ attempt \in 1..MAX_ATTEMPTS
              /\ pc' = "item_end"
              /\ downloaded'
              /\ outcomes' = Append(outcomes, [item |-> idx, result |-> "Succeeded"])
              /\ success_count' = success_count + 1
              /\ UNCHANGED <<fail_count, failed_files>>
        /\ (/\ pc = "item_end"
            /\ HasResult(outcomes, idx, "Succeeded")
            /\ pc' # pc)
           => /\ idx' = idx + 1
              /\ UNCHANGED <<outcomes, success_count, fail_count, failed_files>> ]_vars

C12_Witness ==
    /\ pc = "item_end"
    /\ attempt = MAX_ATTEMPTS
    /\ downloaded
    /\ HasResult(outcomes, idx, "Succeeded")
    /\ ~HasResult(outcomes, idx, "Failed")

(* C13: an item is counted Succeeded only by an attempt in which the       *)
(* download control was clicked, the begin check saw its evidence, and a   *)
(* completion poll then sees the final file present and the .crdownload    *)
(* sibling absent; never while the sibling is there or the file is not.    *)
C13_SucceededOnlyWhenComplete ==
    [][ (\/ success_count' > success_count
         \/ /\ Len(outcomes') = Len(outcomes) + 1
            /\ outcomes'[Len(outcomes')].result = "Succeeded")
        => /\ pc = "complete_wait"
           /\ clicked
           /\ started
           /\ OutPath(Name(idx)) \in fs
           /\ TmpFile(Name(idx)) \notin fs
           /\ success_count' = success_count + 1
           /\ outcomes' = Append(outcomes, [item |-> idx, result |-> "Succeeded"]) ]_vars

C13_Witness ==
    /\ pc = "item_end"
    /\ clicked
    /\ started
    /\ success_count = 2
    /\ CountOf(outcomes, "Succeeded") = 2
    /\ \A i \in Items : OutPath(Name(i)) \in fs /\ TmpFile(Name(i)) \notin fs

(* C14 as claimed: every unsuccessful attempt, the one whose detail view   *)
(* could not be opened included, is followed by a page refresh and then a  *)
(* back-off delay before the next attempt starts or the item is declared   *)
(* Failed: the attempt loop is come back to from the back-off only, and    *)
(* the back-off is reached from the refresh only.                          *)
C14_AlwaysRefreshAndBackoff ==
    [][ /\ (pc' = "attempt_loop" /\ pc \notin {"attempt_loop", "item"})
           => pc = "backoff"
        /\ (pc' = "backoff" /\ pc # "backoff") => pc = "refresh" ]_vars

(* C14 as the code has it: an attempt that opened the detail view and then *)
(* failed (control not found, transfer never began, transfer stalled)      *)
(* calls driver.refresh() and, when that returns, waits the back-off delay *)
(* before the next attempt starts or the item is declared Failed; an       *)
(* attempt whose driver.get raised goes on with neither.                   *)
C14_RefreshAndBackoffOnceOpened ==
    [][ /\ (pc = "nav" /\ pc' # pc) => pc' \in {"click", "attempt_loop"}
        /\ (pc = "click" /\ pc' # pc /\ ~clicked') => pc' = "refresh"
        /\ (pc = "begin_wait" /\ pc' \notin {pc, "complete_wait"}) => pc' = "refresh"
        /\ (pc = "complete_wait" /\ pc' \notin {pc, "item_end"}) => pc' = "refresh"
        /\ (pc = "refresh" /\ pc' # pc) => (pc' = "backoff" \/ exc' = "download")
        /\ (pc = "backoff" /\ pc' # pc) => pc' = "attempt_loop"
        /\ (pc' = "attempt_loop" /\ pc \notin {"attempt_loop", "item", "nav"})
           => pc = "backoff"
        /\ (pc' = "backoff" /\ pc # "backoff") => pc = "refresh" ]_vars

C14_Witness ==
    /\ pc = "backoff"
    /\ attempt = MAX_ATTEMPTS
    /\ idx = 2
    /\ HasResult(outcomes, 1, "Failed")

(* C15: downloads are serialized and ordered: no attempt starts while the  *)
(* crawl is running, the items are taken in the order the catalog got      *)
(* them, and an item is started only when every item before it has its     *)
(* outcome logged and no later item has been touched.                      *)
C15_SerializedInOrder ==
    /\ pc \in CrawlPcs \cup {"start_download"} =>
          /\ outcomes = <<>>
          /\ attempt = 0
          /\ transfers = {}
          /\ ~clicked
    /\ \A k \in 1..Len(outcomes) : outcomes[k].item = k
    /\ pc \in ItemPcs =>
          /\ \A j \in 1..(idx - 1) : OneResult(outcomes, j)
          /\ Len(outcomes) = IF pc = "item_end" /\ downloaded THEN idx ELSE idx - 1
          /\ transfers \subseteq { Name(j) : j \in 1..idx }
    /\ pc = "item" => transfers \subseteq { Name(j) : j \in 1..(idx - 1) }

C15_Witness ==
    /\ pc = "nav"
    /\ idx = 2
    /\ attempt = 1
    /\ Len(outcomes) = 1
    /\ outcomes[1] = [item |-> 1, result |-> "Failed"]
    /\ file_map[1].key = <<"h", "/", "1">>

(* C16: the catalog is append-only: no step removes or changes an entry    *)
(* (so the address and name kept for a key are those of the first anchor   *)
(* seen with it), entries are added by collect_links_on_page only, each    *)
(* under a key not yet present, and download_via_browser leaves the        *)
(* catalog as it is.                                                       *)
C16_CatalogAppendOnly ==
    [][ /\ Len(file_map') >= Len(file_map)
        /\ \A i \in 1..Len(file_map) : file_map'[i] = file_map[i]
        /\ \A i \in (Len(file_map) + 1)..Len(file_map') :
              /\ pc = "anchor"
              /\ ~HasKey(file_map, file_map'[i].key)
        /\ pc \notin CrawlPcs => file_map' = file_map ]_vars

C16_Witness ==
    /\ pc = "item_end"
    /\ idx = 2
    /\ Len(file_map) = 2
    /\ file_map[1].href = <<"h", "/", "1">>
    /\ file_map[1].name = <<"1">>
    /\ <<"h", "/", "1", "?", "v">> \in seen
    /\ page_idx = 2

(* C17: wait_for_new_page reports success only when the canonical key      *)
(* (the address with its query stripped) of the first listed item differs  *)
(* from the key of the first item before the advance; never when only the  *)
(* query of the first link changed.                                        *)
C17_SuccessMeansNewKey ==
    (pc = "page_advance" /\ changed)
        => StripQuery(cur_first) # StripQuery(first_href)

(* C18: for every catalog and every behaviour of the browser and of the    *)
(* download directory in which the browser calls return (none raises),     *)
(* the download phase, once called, reaches its summary: the attempts are  *)
(* bounded and each wait ends on its timeout.                              *)
C18_DownloadPhaseTerminates ==
    (pc = "start_download") ~> (pc = "dl_return" \/ exc # "none")

C18_Witness ==
    /\ pc = "dl_return"
    /\ exc = "none"
    /\ summary.logged
    /\ Len(file_map) = 2
    /\ CountOf(outcomes, "Failed") = 2
    /\ attempt = MAX_ATTEMPTS

(* C19: an item is Skipped only when its file was there before the         *)
(* download phase began; stated on its particular case: of two catalog     *)
(* entries with distinct keys and equal sanitized names, the later one is  *)
(* not Skipped on account of the earlier one having Succeeded.             *)
C19_SkipNotCausedByEarlierItem ==
    \A i \in Items : \A j \in Items :
        (/\ i < j
         /\ file_map[i].key # file_map[j].key
         /\ Name(i) = Name(j)
         /\ HasResult(outcomes, i, "Succeeded"))
        => ~HasResult(outcomes, j, "Skipped")

(* C20: an attempt that passes the begin check and enters the completion   *)
(* wait saw evidence that its own click produced: an attempt k >= 2 whose  *)
(* click made the browser start nothing does not get past the begin check  *)
(* on a .crdownload file that an earlier attempt left behind.              *)
C20_BeginEvidenceIsOwn ==
    (pc = "complete_wait" /\ attempt >= 2) => took

====
